---- MODULE Spec2Model ----
(***************************************************************************)
(* Course manager backend (src/app.js): the Express routes over the        *)
(* Mongoose models User and Course.  Every request is one process: it      *)
(* arrives, runs the route's middleware chain synchronously, and then its  *)
(* async handler runs one step per awaited persistence call.  Node runs    *)
(* the code between two awaits without interruption, so the atomic steps   *)
(* are: arrival + middleware, each database call together with the         *)
(* synchronous continuation that follows it.                               *)
(*                                                                         *)
(* Persistence is Mongoose over the schema of src/unnamed/part_002: a      *)
(* fetched document tracks its own changes and save() sends only those:    *)
(* Array#push is sent as an atomic $push (version key incremented, not     *)
(* compared), an assigned array is sent as $set guarded by the version key *)
(* read at fetch time (a mismatch is a VersionError), assigned scalars are *)
(* sent as $set, and an unchanged document sends nothing.                  *)
(***************************************************************************)
EXTENDS Integers, Sequences, FiniteSets, TLC

VARIABLES users, courses, nextId, clock, req, pc, doc, resp, out, ran, wrote,
          before, at

vars == <<users, courses, nextId, clock, req, pc, doc, resp, out, ran, wrote,
          before, at>>

(* ------------------------------ bounds --------------------------------- *)

MaxReq == 2

MaxCourses == 2

\* Requests in the specifications that look at one route's gates alone.
MaxSolo == 1

\* Users that register after the first request.
MaxNewUsers == 2

\* How far past a token's lifetime the clock is followed.
MaxLate == 1

Reqs == 1..MaxReq

CourseIds == 1..MaxCourses

(* ------------------------------- users --------------------------------- *)

\* The users registered before the first request, and the ids the next
\* registrations get.
UserIds == {"T1", "T2", "S1"}

NewUserIds == <<"N1", "N2", "N3", "N4">>

RoleOf(u) == IF u \in {"T1", "T2"} THEN "teacher" ELSE "student"

UsernameOf(u) == IF u = "T1" THEN "t1" ELSE IF u = "T2" THEN "t2" ELSE "s1"

\* expiresIn: "1h", in seconds.
TokenLifetime == 3600

\* The error code of a duplicate key in a unique index.
DuplicateKey == 11000

\* The instants the clock is observed at: the start, a moment later, and the
\* seconds around the expiry of a token signed at the start.
Instants == {0, 1} \cup ((TokenLifetime - 1)..(TokenLifetime + MaxLate))

ObjectIdLen == 24

HexDigits == {"0", "1", "2", "3", "4", "5", "6", "7", "8", "9",
              "a", "b", "c", "d", "e", "f", "A", "B", "C", "D", "E", "F"}

\* The 24-character hexadecimal string of a user's _id.
IdHex(u) == [i \in 1..ObjectIdLen |->
               IF i < ObjectIdLen THEN "0"
               ELSE CASE u = "T1" -> "1" [] u = "T2" -> "2" [] u = "S1" -> "3"
                      [] u = "N1" -> "4" [] u = "N2" -> "5" [] u = "N3" -> "6"
                      [] OTHER -> "7"]

\* The pattern without its end anchor: a longer string of hex digits matches.
IsObjectIdPrefix(s) ==
  Len(s) >= ObjectIdLen /\ \A i \in 1..ObjectIdLen : s[i] \in HexDigits

\* /^[0-9a-fA-F]{24}$/.test(owner)
IsObjectIdShape(s) == Len(s) = ObjectIdLen /\ \A i \in 1..Len(s) : s[i] \in HexDigits

(* ----------------------------- credentials ----------------------------- *)

NoToken == [kind |-> "none", id |-> "none", username |-> "none", role |-> "none",
            iat |-> 0, exp |-> 0]

BadToken == [NoToken EXCEPT !.kind = "bad"]

\* jwt.sign({_id, username, role}, secret, {expiresIn: "1h"}) at time now.
Sign(u, now) ==
  [kind |-> "valid", id |-> u, username |-> users[u].username, role |-> users[u].role,
   iat |-> now, exp |-> now + TokenLifetime]

\* The token a user registered before the first request holds: signed at 0.
Cred(u) == Sign(u, 0)

\* What a request can carry: no token, one that does not verify, the token of
\* an early user, or a token some login has returned.
Tokens ==
  {NoToken, BadToken} \cup {Cred(u) : u \in UserIds}
    \cup {out[q].token : q \in {x \in DOMAIN out : out[x].token.kind = "valid"}}

(* ------------------------------- courses ------------------------------- *)

NoCourse == [exists |-> FALSE, owner |-> "none", enrolledUsers |-> <<>>,
             courseId |-> "none", courseName |-> "none", v |-> 0]

NewCourse(owner, code, name, enrolled) ==
  [exists |-> TRUE, owner |-> owner, enrolledUsers |-> enrolled,
   courseId |-> code, courseName |-> name, v |-> 0]

RECURSIVE Count(_, _)
Count(x, s) == IF s = <<>> THEN 0
               ELSE (IF s[1] = x THEN 1 ELSE 0) + Count(x, Tail(s))

Contains(s, x) == \E i \in 1..Len(s) : s[i] = x

RECURSIVE Without(_, _)
\* enrolledUsers.filter((userId) => userId.toString() !== x)
Without(s, x) == IF s = <<>> THEN <<>>
                 ELSE IF s[1] = x THEN Without(Tail(s), x)
                 ELSE <<s[1]>> \o Without(Tail(s), x)

NoDuplicates(s) == \A i, j \in 1..Len(s) : i # j => s[i] # s[j]

(* -------------------------------- text --------------------------------- *)

\* The characters of the course codes, course names and search texts in use.
Chars(t) ==
  CASE t = "Intro"   -> <<"I", "n", "t", "r", "o">>
    [] t = "Algebra" -> <<"A", "l", "g", "e", "b", "r", "a">>
    [] t = "CS1"     -> <<"C", "S", "1">>
    [] t = "MA1"     -> <<"M", "A", "1">>
    [] t = "intro"   -> <<"i", "n", "t", "r", "o">>
    [] t = "cs"      -> <<"c", "s">>
    [] t = "a."      -> <<"a", ".">>
    [] t = "INT"     -> <<"I", "N", "T">>
    [] OTHER         -> <<>>

Lower(ch) ==
  CASE ch = "A" -> "a" [] ch = "C" -> "c" [] ch = "I" -> "i" [] ch = "M" -> "m"
    [] ch = "N" -> "n" [] ch = "S" -> "s" [] ch = "T" -> "t" [] OTHER -> ch

\* { $regex: pattern, $options: "i" } on text: the pattern is found somewhere
\* in the text, letters compared without case, "." standing for any character.
RegexFinds(pattern, text) ==
  \E i \in 0..(Len(text) - Len(pattern)) :
    \A j \in 1..Len(pattern) :
      pattern[j] = "." \/ Lower(pattern[j]) = Lower(text[i + j])

(* ------------------------------ requests ------------------------------- *)

EmptyBody == [courseId |-> "absent", courseName |-> "absent", owner |-> "absent",
              hasEnrolled |-> FALSE, enrolledUsers |-> <<>>]

NoQuery == [enrolled |-> "absent", hasOwner |-> FALSE, owner |-> <<>>, search |-> ""]

\* req.body of POST /users and POST /auth; "" is a missing field.
NoForm == [username |-> "", password |-> "", role |-> ""]

NoReq == [op |-> "none", token |-> NoToken, cid |-> 0, body |-> EmptyBody, q |-> NoQuery,
          form |-> NoForm]

NoResp == [status |-> 0, msg |-> "none"]

\* The payload of a response: the courses of a list, the token and role of a login.
NoOut == [ids |-> {}, token |-> NoToken, role |-> "none"]

\* Request bodies of POST /courses and PUT /courses/:id (req.body).
Bodies ==
  { EmptyBody,
    [EmptyBody EXCEPT !.courseId = "CS1", !.courseName = "Intro"],
    [EmptyBody EXCEPT !.courseId = "CS1", !.courseName = "Intro", !.owner = "T2"],
    [EmptyBody EXCEPT !.hasEnrolled = TRUE, !.enrolledUsers = <<"S1", "S1">>],
    [EmptyBody EXCEPT !.courseId = "MA1", !.courseName = "Algebra", !.hasEnrolled = TRUE] }

\* Bodies of POST /users and POST /auth; "" is a field that is missing or
\* empty.  A body has every field, or lacks exactly one.
Usernames == {"alice", "t1"}

Passwords == {"pw1", "pw2"}

Roles == {"student", "teacher", "admin"}

RegisterForms ==
  { [username |-> n, password |-> p, role |-> l] :
      n \in Usernames, p \in Passwords, l \in Roles }
  \cup
  { [username |-> "", password |-> "pw1", role |-> "student"],
    [username |-> "alice", password |-> "", role |-> "student"],
    [username |-> "alice", password |-> "pw1", role |-> ""] }

LoginForms ==
  { [username |-> n, password |-> p, role |-> ""] : n \in Usernames, p \in Passwords }
  \cup
  { [username |-> "", password |-> "pw1", role |-> ""],
    [username |-> "alice", password |-> "", role |-> ""] }

UserInputs ==
  { [NoReq EXCEPT !.op = "register", !.form = f] : f \in RegisterForms }
  \cup
  { [NoReq EXCEPT !.op = "login", !.form = f] : f \in LoginForms }

\* Values of the owner query parameter: empty, 23 hex digits, 24 characters
\* with one that is no hex digit, 25 hex digits, and a well-formed id.
OwnerParams ==
  { <<>>,
    [i \in 1..(ObjectIdLen - 1) |-> "a"],
    [i \in 1..ObjectIdLen |-> IF i = 1 THEN "g" ELSE "F"],
    [i \in 1..(ObjectIdLen + 1) |-> "a"],
    IdHex("T1") }

\* req.query of GET /courses.
Queries ==
  { [enrolled |-> e, hasOwner |-> FALSE, owner |-> <<>>, search |-> s] :
      e \in {"absent", "true", "false"}, s \in {"", "intro"} }
  \cup
  { [enrolled |-> e, hasOwner |-> TRUE, owner |-> o, search |-> s] :
      e \in {"absent", "true", "false"}, o \in OwnerParams, s \in {"", "intro"} }

Inputs ==
  { [NoReq EXCEPT !.op = "list", !.token = t, !.q = q] : t \in Tokens, q \in Queries }
  \cup
  { [NoReq EXCEPT !.op = "create", !.token = t, !.body = b] : t \in Tokens, b \in Bodies }
  \cup
  { [NoReq EXCEPT !.op = "update", !.token = t, !.cid = c, !.body = b] :
      t \in Tokens, c \in CourseIds, b \in Bodies }
  \cup
  { [NoReq EXCEPT !.op = o, !.token = t, !.cid = c] :
      o \in {"read", "delete", "enroll", "drop"}, t \in Tokens, c \in CourseIds }

(* ------------------- middleware (./models/auth) ------------------------ *)

\* authenticateToken: passes iff the token verifies, which includes that it
\* has not expired; it then sets req.user.
AuthenticateToken(token) == token.kind = "valid" /\ clock < token.exp

\* authorizeTeachersOnly: passes iff req.user.role is teacher.
AuthorizeTeachersOnly(token) == token.role = "teacher"

\* DELETE /courses/:id registered without authorizeTeachersOnly.
MiddlewareNoRoleOnDelete(op) ==
  CASE op = "list"   -> <<"authenticateToken">>
    [] op = "create" -> <<"authenticateToken", "authorizeTeachersOnly">>
    [] op = "read"   -> <<>>
    [] op = "update" -> <<"authenticateToken", "authorizeTeachersOnly">>
    [] op = "delete" -> <<"authenticateToken">>
    [] op = "enroll" -> <<"authenticateToken">>
    [] op = "drop"   -> <<"authenticateToken">>
    [] op = "register" -> <<>>
    [] op = "login"  -> <<>>

\* The middleware each route registers before its handler.
Middleware(op) ==
  CASE op = "list"   -> <<"authenticateToken">>
    [] op = "create" -> <<"authenticateToken", "authorizeTeachersOnly">>
    [] op = "read"   -> <<>>
    [] op = "update" -> <<"authenticateToken", "authorizeTeachersOnly">>
    [] op = "delete" -> <<"authenticateToken", "authorizeTeachersOnly">>
    [] op = "enroll" -> <<"authenticateToken">>
    [] op = "drop"   -> <<"authenticateToken">>
    [] op = "register" -> <<>>
    [] op = "login"  -> <<>>

GatePasses(g, token) ==
  IF g = "authenticateToken" THEN AuthenticateToken(token)
  ELSE AuthorizeTeachersOnly(token)

GateFailure(g) ==
  IF g = "authenticateToken" THEN [status |-> 401, msg |-> "Unauthenticated"]
  ELSE [status |-> 403, msg |-> "Forbidden"]

RECURSIVE RunChain(_, _, _)
\* Express runs the chain in order; the first middleware that does not call
\* next() answers the request and nothing after it runs.
RunChain(mw, token, done) ==
  IF mw = <<>> THEN [ok |-> TRUE, resp |-> NoResp, ran |-> done]
  ELSE IF GatePasses(mw[1], token)
       THEN RunChain(Tail(mw), token, Append(done, mw[1]))
       ELSE [ok |-> FALSE, resp |-> GateFailure(mw[1]), ran |-> Append(done, mw[1])]

(* ------------------------------- Init ---------------------------------- *)

\* Database contents the program reaches: nothing stored yet, the course T1
\* has just created, that course after S1 has enrolled, and the same with a
\* second course created by T2.
InitialCourses ==
  { [c \in CourseIds |-> NoCourse],
    [c \in CourseIds |->
        IF c = 1 THEN NewCourse("T1", "CS1", "Intro", <<"T1">>) ELSE NoCourse],
    [c \in CourseIds |->
        IF c = 1 THEN [NewCourse("T1", "CS1", "Intro", <<"T1", "S1">>) EXCEPT !.v = 1]
        ELSE NoCourse],
    [c \in CourseIds |->
        IF c = 1 THEN [NewCourse("T1", "CS1", "Intro", <<"T1", "S1">>) EXCEPT !.v = 1]
        ELSE IF c = 2 THEN NewCourse("T2", "MA1", "Algebra", <<"T2">>)
        ELSE NoCourse] }

Init ==
  /\ users = [u \in UserIds |->
                [username |-> UsernameOf(u), password |-> "pw1", role |-> RoleOf(u)]]
  /\ clock = 0
  /\ out = [r \in Reqs |-> NoOut]
  /\ at = [r \in Reqs |-> 0]
  /\ courses \in InitialCourses
  /\ nextId = 1 + Cardinality({c \in CourseIds : courses[c].exists})
  /\ req = [r \in Reqs |-> NoReq]
  /\ pc = [r \in Reqs |-> "idle"]
  /\ doc = [r \in Reqs |-> NoCourse]
  /\ resp = [r \in Reqs |-> NoResp]
  /\ ran = [r \in Reqs |-> <<>>]
  /\ wrote = [r \in Reqs |-> FALSE]
  /\ before = [r \in Reqs |-> {}]

(* ------------------------------ actions -------------------------------- *)

Caller(r) == req[r].token.id

Reply(r, status, msg) ==
  /\ resp' = [resp EXCEPT ![r] = [status |-> status, msg |-> msg]]
  /\ pc' = [pc EXCEPT ![r] = "done"]

\* A request arrives and its route's middleware chain runs.
Arrive(r, inputs) ==
  /\ pc[r] = "idle"
  /\ \A q \in Reqs : q < r => pc[q] # "idle"
  /\ \E in \in inputs :
       LET res == RunChain(Middleware(in.op), in.token, <<>>) IN
         /\ (in.op = "create" /\ res.ok) =>
              nextId + Cardinality({q \in Reqs : req[q].op = "create" /\ pc[q] = "handler"})
                <= MaxCourses
         /\ in.op = "register" =>
              Cardinality(DOMAIN users) - Cardinality(UserIds)
                + Cardinality({q \in Reqs : req[q].op = "register" /\ pc[q] = "handler"})
                < MaxNewUsers
         /\ req' = [req EXCEPT ![r] = in]
         /\ ran' = [ran EXCEPT ![r] = res.ran]
         /\ resp' = [resp EXCEPT ![r] = res.resp]
         /\ pc' = [pc EXCEPT ![r] = IF res.ok THEN "handler" ELSE "done"]
  /\ before' = [before EXCEPT ![r] = {q \in Reqs : pc[q] = "done"}]
  /\ at' = [at EXCEPT ![r] = clock]
  /\ UNCHANGED <<clock, out, users, courses, nextId, doc, wrote>>

Ran(r, what) == ran' = [ran EXCEPT ![r] = Append(@, what)]

(* ------------------------- users and sessions ------------------------- *)

\* The role of the request ignored: every new user a student.
SafeRoleStudent(role) == "student"

\* allowedRoles.includes(role) ? role : "student", with every role kept.
SafeRoleAny(role) == role

\* allowedRoles.includes(role) ? role : "student"
SafeRole(role) == IF role \in {"student", "teacher"} THEN role ELSE "student"

\* User.findOne({ username }): the users stored under this username.
FindUser(username) == {u \in DOMAIN users : users[u].username = username}

\* The unique index on username (./models/user): an insert under a username
\* that is stored fails with a duplicate-key error.
UsernameTaken(username) == FindUser(username) # {}

\* The catch block of POST /users with every error answered 500.
RegisterCatchGeneric(code) == [status |-> 500, msg |-> "Failed to create user"]

\* The catch block of POST /users.
RegisterCatch(code) ==
  IF code = DuplicateKey THEN [status |-> 409, msg |-> "Username already exists"]
  ELSE [status |-> 500, msg |-> "Failed to create user"]

\* POST /users: the three fields must be present; the role is narrowed; save()
\* inserts unless the unique index on username rejects the insert.
RegisterUser(r) ==
  /\ pc[r] = "handler" /\ req[r].op = "register"
  /\ LET f == req[r].form
         id == NewUserIds[Cardinality(DOMAIN users) - Cardinality(UserIds) + 1] IN
       IF f.username = "" \/ f.password = "" \/ f.role = ""
       THEN /\ Reply(r, 400, "Missing username, password, or role")
            /\ UNCHANGED <<users, ran, wrote>>
       ELSE /\ Ran(r, "save")
            /\ IF UsernameTaken(f.username)
                 THEN /\ Reply(r, RegisterCatch(DuplicateKey).status,
                                 RegisterCatch(DuplicateKey).msg)
                      /\ UNCHANGED <<users, wrote>>
                 ELSE /\ users' = users @@
                           (id :> [username |-> f.username, password |-> f.password,
                                   role |-> SafeRole(f.role)])
                      /\ wrote' = [wrote EXCEPT ![r] = TRUE]
                      /\ Reply(r, 201, "User created")
  /\ UNCHANGED <<clock, at, out, courses, nextId, req, doc, before>>

\* The password check of POST /auth with the comparison left out.
PasswordMatchesAny(user, password) == TRUE

\* user.password !== password, negated.
PasswordMatches(user, password) == user.password = password

\* POST /auth: both fields must be present; the user is looked up by username
\* and the password compared; a token is signed and returned with the role.
Login(r) ==
  /\ pc[r] = "handler" /\ req[r].op = "login"
  /\ LET f == req[r].form IN
       IF f.username = "" \/ f.password = ""
       THEN /\ Reply(r, 400, "Missing username or password")
            /\ UNCHANGED <<ran, out>>
       ELSE /\ Ran(r, "findOne")
            /\ IF \E u \in FindUser(f.username) : PasswordMatches(users[u], f.password)
                 THEN \E u \in FindUser(f.username) :
                        /\ PasswordMatches(users[u], f.password)
                        /\ out' = [out EXCEPT ![r].token = Sign(u, clock),
                                               ![r].role = users[u].role]
                        /\ Reply(r, 200, "auth")
                 ELSE /\ Reply(r, 401, "Invalid username or password")
                      /\ UNCHANGED out
  /\ UNCHANGED <<clock, at, users, courses, nextId, req, doc, wrote, before>>

\* Time passes.
Tick ==
  /\ \E t \in Instants : t > clock /\ clock' = t
  /\ UNCHANGED <<users, courses, nextId, req, pc, doc, resp, out, ran, wrote, before, at>>

(* ------------------------------- courses ------------------------------- *)

\* GET /courses: the owner filter is looked at only when enrolled is not
\* "true" and the parameter is a non-empty string.
OwnerRejected(q) ==
  /\ q.enrolled # "true"
  /\ q.hasOwner /\ q.owner # <<>>
  /\ ~IsObjectIdShape(q.owner)

\* The query object the handler builds from req.query.
BuildQuery(q, user) ==
  [byEnrolled |-> q.enrolled = "true", user |-> user,
   byOwner |-> q.enrolled # "true" /\ q.hasOwner /\ q.owner # <<>>, owner |-> q.owner,
   bySearch |-> q.search # "", search |-> q.search]

\* Course.find(query): every condition of the query holds of the course;
\* $or holds when one of its two regular expressions matches.
Selected(course, query) ==
  /\ course.exists
  /\ query.byEnrolled => Contains(course.enrolledUsers, query.user)
  /\ query.byOwner => IdHex(course.owner) = query.owner
  /\ query.bySearch =>
       \/ RegexFinds(Chars(query.search), Chars(course.courseId))
       \/ RegexFinds(Chars(query.search), Chars(course.courseName))

ListCourses(r) ==
  /\ pc[r] = "handler" /\ req[r].op = "list"
  /\ IF OwnerRejected(req[r].q)
       THEN /\ Reply(r, 400, "Invalid owner ID")
            /\ UNCHANGED <<ran, out>>
       ELSE /\ Ran(r, "find")
            /\ out' = [out EXCEPT ![r].ids =
                         {c \in CourseIds :
                            Selected(courses[c], BuildQuery(req[r].q, Caller(r)))}]
            /\ Reply(r, 200, "courses")
  /\ UNCHANGED <<clock, at, users, courses, nextId, req, doc, wrote, before>>

\* POST /courses: the body is spread first, then owner and enrolledUsers are
\* set from the caller; save() validates (courseId and courseName are
\* required), inserts, and the created course is returned.
\* new Course({owner: req.user._id, enrolledUsers: [req.user._id], ...req.body}):
\* the body spread last, so that its owner and enrolledUsers win.
CreatedCourseBodyLast(body, user) ==
  NewCourse(IF body.owner = "absent" THEN user ELSE body.owner,
            body.courseId, body.courseName,
            IF body.hasEnrolled THEN body.enrolledUsers ELSE <<user>>)

\* new Course({...req.body, owner: req.user._id, enrolledUsers: [req.user._id]})
CreatedCourse(body, user) == NewCourse(user, body.courseId, body.courseName, <<user>>)

\* courseId is a unique index: a stored course already has this code.
CodeInUse(code) == \E c \in CourseIds : courses[c].exists /\ courses[c].courseId = code

CreateCourse(r) ==
  /\ pc[r] = "handler" /\ req[r].op = "create"
  /\ Ran(r, "save")
  /\ IF req[r].body.courseId = "absent" \/ req[r].body.courseName = "absent"
       THEN /\ Reply(r, 400, "Course validation failed")
            /\ UNCHANGED <<courses, nextId, wrote, doc>>
       ELSE IF CodeInUse(req[r].body.courseId)
         THEN /\ Reply(r, 400, "E11000 duplicate key")
              /\ UNCHANGED <<courses, nextId, wrote, doc>>
         ELSE /\ courses' = [courses EXCEPT ![nextId] = CreatedCourse(req[r].body, Caller(r))]
              /\ doc' = [doc EXCEPT ![r] = CreatedCourse(req[r].body, Caller(r))]
              /\ nextId' = nextId + 1
              /\ wrote' = [wrote EXCEPT ![r] = TRUE]
              /\ Reply(r, 201, "created")
  /\ UNCHANGED <<clock, at, out, users, req, before>>

\* The guard left out: a missing course is handled like a stored one.
CourseMissingNever(course) == FALSE

\* if (!course): findById found nothing.
CourseMissing(course) == ~course.exists

\* GET /courses/:id
GetCourse(r) ==
  /\ pc[r] = "handler" /\ req[r].op = "read"
  /\ doc' = [doc EXCEPT ![r] = courses[req[r].cid]]
  /\ Ran(r, "findById")
  /\ IF CourseMissing(courses[req[r].cid])
       THEN Reply(r, 404, "Course not found")
       ELSE Reply(r, 200, "course")
  /\ UNCHANGED <<clock, at, out, users, courses, nextId, req, wrote, before>>

\* The ownership comparison replaced by a look at the caller's role.
IsOwnerAnyTeacher(course, user) == RoleOf(user) = "teacher"

\* course.owner.toString() !== req.user._id.toString() is the rejection.
IsOwner(course, user) == course.owner = user

\* The first half of PUT and DELETE /courses/:id: findById, then the
\* ownership check on the fetched document.
OwnerFetch(r, op, denied) ==
  /\ pc[r] = "handler" /\ req[r].op = op
  /\ doc' = [doc EXCEPT ![r] = courses[req[r].cid]]
  /\ Ran(r, "findById")
  /\ IF CourseMissing(courses[req[r].cid])
       THEN Reply(r, 404, "Course not found")
       ELSE IF ~IsOwner(courses[req[r].cid], Caller(r))
         THEN Reply(r, 403, denied)
         ELSE /\ pc' = [pc EXCEPT ![r] = "save"]
              /\ UNCHANGED resp
  /\ UNCHANGED <<clock, at, out, users, courses, nextId, req, wrote, before>>

UpdateFetch(r) == OwnerFetch(r, "update", "Not authorized to edit this course")

DeleteFetch(r) == OwnerFetch(r, "delete", "Not authorized to delete this course")

(* --------------------------- document save ----------------------------- *)

NoDelta == [push |-> <<>>, setArr |-> FALSE, arr |-> <<>>,
            setCode |-> FALSE, courseId |-> "none",
            setName |-> FALSE, courseName |-> "none",
            setOwner |-> FALSE, owner |-> "none"]

\* save() that writes the whole fetched document back, with its local
\* changes, whatever has been stored since the fetch.
SaveWholeDocument(cur, d, delta) ==
  LET changed == delta.push # <<>> \/ delta.setArr \/ delta.setCode
                   \/ delta.setName \/ delta.setOwner
      next == [d EXCEPT
                 !.enrolledUsers = IF delta.setArr THEN delta.arr ELSE @ \o delta.push,
                 !.courseId = IF delta.setCode THEN delta.courseId ELSE @,
                 !.courseName = IF delta.setName THEN delta.courseName ELSE @,
                 !.owner = IF delta.setOwner THEN delta.owner ELSE @,
                 !.v = @ + 1]
  IN IF ~cur.exists THEN {[ok |-> FALSE, course |-> cur, wrote |-> FALSE]}
     ELSE IF ~changed THEN {[ok |-> TRUE, course |-> cur, wrote |-> FALSE]}
     ELSE {[ok |-> TRUE, course |-> next, wrote |-> TRUE]}

\* save() written as an upsert of the fetched document: a stored course
\* that is gone is inserted again.
SaveUpsert(cur, d, delta) ==
  IF cur.exists THEN SaveWholeDocument(cur, d, delta)
  ELSE {[ok |-> TRUE, wrote |-> TRUE,
         course |-> [d EXCEPT
            !.enrolledUsers = IF delta.setArr THEN delta.arr ELSE @ \o delta.push,
            !.v = @ + 1]]}

\* The outcomes of save() on a fetched document d whose tracked changes are
\* delta, when the stored course is cur.  $push and an array $set carry the
\* version key; only the array $set compares it with the fetched version.
\* An update that matches no stored document changes nothing: it is an error
\* when it carries the version key, and otherwise an error or a silent
\* success depending on the Mongoose release.  A courseId another course
\* has is a duplicate-key error.
SaveOutcomes(cur, d, delta) ==
  LET versioned == delta.push # <<>> \/ delta.setArr
      changed == versioned \/ delta.setCode \/ delta.setName \/ delta.setOwner
      fail == [ok |-> FALSE, course |-> cur, wrote |-> FALSE]
      same == [ok |-> TRUE, course |-> cur, wrote |-> FALSE]
      next == [cur EXCEPT
                 !.enrolledUsers = IF delta.setArr THEN delta.arr ELSE @ \o delta.push,
                 !.courseId = IF delta.setCode THEN delta.courseId ELSE @,
                 !.courseName = IF delta.setName THEN delta.courseName ELSE @,
                 !.owner = IF delta.setOwner THEN delta.owner ELSE @,
                 !.v = IF versioned THEN @ + 1 ELSE @]
  IN IF ~cur.exists THEN (IF versioned THEN {fail} ELSE {fail, same})
     ELSE IF ~changed THEN {same}
     ELSE IF delta.setArr /\ cur.v # d.v THEN {fail}
     ELSE IF delta.setCode /\ delta.courseId # cur.courseId /\ CodeInUse(delta.courseId)
       THEN {fail}
     ELSE {[ok |-> TRUE, course |-> next, wrote |-> TRUE]}

\* await course.save() and the response that follows it; a rejected save is
\* caught and answered with status 400.
Save(r, op, delta, okMsg) ==
  /\ pc[r] = "save" /\ req[r].op = op
  /\ Ran(r, "save")
  /\ \E o \in SaveOutcomes(courses[req[r].cid], doc[r], delta) :
       /\ courses' = [courses EXCEPT ![req[r].cid] = o.course]
       /\ wrote' = [wrote EXCEPT ![r] = o.wrote]
       /\ IF o.ok THEN Reply(r, 200, okMsg) ELSE Reply(r, 400, "save failed")
  /\ UNCHANGED <<clock, at, out, users, nextId, req, doc, before>>

\* Object.assign(course, req.body): every field of the body is assigned; a
\* field whose value equals the fetched one is not marked modified.
UpdateDelta(d, b) ==
  [NoDelta EXCEPT
     !.setArr = b.hasEnrolled /\ b.enrolledUsers # d.enrolledUsers,
     !.arr = b.enrolledUsers,
     !.setCode = b.courseId # "absent" /\ b.courseId # d.courseId,
     !.courseId = b.courseId,
     !.setName = b.courseName # "absent" /\ b.courseName # d.courseName,
     !.courseName = b.courseName,
     !.setOwner = b.owner # "absent" /\ b.owner # d.owner,
     !.owner = b.owner]

UpdateSave(r) == Save(r, "update", UpdateDelta(doc[r], req[r].body), "course")

\* await course.deleteOne()
DeleteOne(r) ==
  /\ pc[r] = "save" /\ req[r].op = "delete"
  /\ Ran(r, "deleteOne")
  /\ courses' = [courses EXCEPT ![req[r].cid] = NoCourse]
  /\ wrote' = [wrote EXCEPT ![r] = courses[req[r].cid].exists]
  /\ Reply(r, 200, "Course deleted")
  /\ UNCHANGED <<clock, at, out, users, nextId, req, doc, before>>

(* ------------------------------ enrollment ----------------------------- *)

\* The membership test comparing an ObjectId with a string: never equal.
AlreadyEnrolledNever(course, user) == FALSE

\* course.enrolledUsers.some((id) => id.toString() === req.user._id.toString())
AlreadyEnrolled(course, user) == Contains(course.enrolledUsers, user)

EnrollFetch(r) ==
  /\ pc[r] = "handler" /\ req[r].op = "enroll"
  /\ doc' = [doc EXCEPT ![r] = courses[req[r].cid]]
  /\ Ran(r, "findById")
  /\ IF CourseMissing(courses[req[r].cid])
       THEN Reply(r, 404, "Course not found")
       ELSE IF AlreadyEnrolled(courses[req[r].cid], Caller(r))
         THEN Reply(r, 400, "User already enrolled in this course")
         ELSE /\ pc' = [pc EXCEPT ![r] = "save"]
              /\ UNCHANGED resp
  /\ UNCHANGED <<clock, at, out, users, courses, nextId, req, wrote, before>>

\* course.enrolledUsers.push(req.user._id)
EnrollDelta(d, user) == [NoDelta EXCEPT !.push = <<user>>]

EnrollSave(r) ==
  Save(r, "enroll", EnrollDelta(doc[r], Caller(r)), "Successfully enrolled in course")

DropFetch(r) ==
  /\ pc[r] = "handler" /\ req[r].op = "drop"
  /\ doc' = [doc EXCEPT ![r] = courses[req[r].cid]]
  /\ Ran(r, "findById")
  /\ IF CourseMissing(courses[req[r].cid])
       THEN Reply(r, 404, "Course not found")
       ELSE /\ pc' = [pc EXCEPT ![r] = "save"]
            /\ UNCHANGED resp
  /\ UNCHANGED <<clock, at, out, users, courses, nextId, req, wrote, before>>

\* The filter's comparison inverted: only the caller is kept.
DropDeltaInverted(d, user) ==
  [NoDelta EXCEPT
     !.setArr = SelectSeq(d.enrolledUsers, LAMBDA x : x = user) # d.enrolledUsers,
     !.arr = SelectSeq(d.enrolledUsers, LAMBDA x : x = user)]

\* The filtered array sent as a change even when nothing was removed.
DropDeltaAlways(d, user) ==
  [NoDelta EXCEPT !.setArr = TRUE, !.arr = Without(d.enrolledUsers, user)]

\* course.enrolledUsers = course.enrolledUsers.filter(...): the assigned
\* array is a change only if it differs from the fetched one.
DropDelta(d, user) ==
  [NoDelta EXCEPT
     !.setArr = Without(d.enrolledUsers, user) # d.enrolledUsers,
     !.arr = Without(d.enrolledUsers, user)]

DropSave(r) ==
  Save(r, "drop", DropDelta(doc[r], Caller(r)), "Successfully dropped the course")

(* ------------------------ persistence failures ------------------------ *)

\* PUT and DELETE /courses/:id written without try/catch: the rejection is
\* not handled and nothing is sent.
CatchResponseUncaught(op) ==
  CASE op = "list"     -> [status |-> 500, msg |-> "Failed to fetch courses"]
    [] op = "register" -> [status |-> 500, msg |-> "Failed to create user"]
    [] op = "login"    -> [status |-> 500, msg |-> "Login failed"]
    [] op \in {"update", "delete"} -> NoResp
    [] OTHER           -> [status |-> 400, msg |-> "err.message"]

\* The response of each route's catch block to an error that is no
\* duplicate key: three routes answer 500 with a fixed text, the others 400
\* with the error's own message.
CatchResponse(op) ==
  CASE op = "list"     -> [status |-> 500, msg |-> "Failed to fetch courses"]
    [] op = "register" -> RegisterCatch(0)
    [] op = "login"    -> [status |-> 500, msg |-> "Login failed"]
    [] OTHER           -> [status |-> 400, msg |-> "err.message"]

\* The request is waiting for a database call.
AwaitsDb(r) ==
  \/ pc[r] = "save"
  \/ /\ pc[r] = "handler"
     /\ CASE req[r].op = "list"     -> ~OwnerRejected(req[r].q)
          [] req[r].op = "register" ->
               req[r].form.username # "" /\ req[r].form.password # "" /\ req[r].form.role # ""
          [] req[r].op = "login"    ->
               req[r].form.username # "" /\ req[r].form.password # ""
          [] OTHER                  -> TRUE

\* The database call the request is waiting for rejects; the route's catch
\* block answers.
Fails(r) ==
  /\ AwaitsDb(r)
  /\ Ran(r, "throw")
  /\ Reply(r, CatchResponse(req[r].op).status, CatchResponse(req[r].op).msg)
  /\ UNCHANGED <<clock, at, out, users, courses, nextId, req, doc, wrote, before>>

(* ---------------------------- specification ---------------------------- *)

Next ==
  \E r \in Reqs :
    \/ Arrive(r, Inputs)
    \/ ListCourses(r)
    \/ CreateCourse(r)
    \/ GetCourse(r)
    \/ UpdateFetch(r)
    \/ UpdateSave(r)
    \/ DeleteFetch(r)
    \/ DeleteOne(r)
    \/ EnrollFetch(r)
    \/ EnrollSave(r)
    \/ DropFetch(r)
    \/ DropSave(r)

Spec == Init /\ [][Next]_vars

\* Only enroll and drop requests of authenticated callers arrive.
EnrollInputs == {i \in Inputs : i.op \in {"enroll", "drop"} /\ i.token.kind = "valid"}

NextEnroll ==
  \E r \in Reqs :
    \/ Arrive(r, EnrollInputs)
    \/ EnrollFetch(r)
    \/ EnrollSave(r)
    \/ DropFetch(r)
    \/ DropSave(r)

SpecEnroll == Init /\ [][NextEnroll]_vars

\* Only create, update and delete requests arrive, with any credential, and
\* at most MaxSolo of them.
GateInputs == {i \in Inputs : i.op \in {"create", "update", "delete"}}

NextGate ==
  \E r \in 1..MaxSolo :
    \/ Arrive(r, GateInputs)
    \/ CreateCourse(r)
    \/ UpdateFetch(r)
    \/ UpdateSave(r)
    \/ DeleteFetch(r)
    \/ DeleteOne(r)

SpecGate == Init /\ [][NextGate]_vars

\* Only list requests arrive, with any credential, and at most MaxSolo of them.
ListQueries ==
  Queries
  \cup
  { [enrolled |-> e, hasOwner |-> o # <<>>, owner |-> o, search |-> t] :
      e \in {"absent", "true"}, o \in {<<>>, IdHex("T1"), IdHex("T2")},
      t \in {"", "intro", "INT", "cs", "a."} }

ListInputs == { [NoReq EXCEPT !.op = "list", !.token = t, !.q = q] :
                  t \in Tokens, q \in ListQueries }

NextList ==
  \E r \in 1..MaxSolo :
    \/ Arrive(r, ListInputs)
    \/ ListCourses(r)

SpecList == Init /\ [][NextList]_vars

\* Only registrations and logins arrive, and no course is stored.
InitUsers == Init /\ \A c \in CourseIds : ~courses[c].exists

NextUsers ==
  \E r \in Reqs :
    \/ Arrive(r, UserInputs)
    \/ RegisterUser(r)
    \/ Login(r)

SpecUsers == InitUsers /\ [][NextUsers]_vars

\* Requests addressed to one course, with any credential, at most MaxSolo.
CourseInputs == {i \in Inputs : i.op \in {"read", "update", "delete", "enroll", "drop"}}

NextCourse ==
  \E r \in 1..MaxSolo :
    \/ Arrive(r, CourseInputs)
    \/ GetCourse(r)
    \/ UpdateFetch(r)
    \/ UpdateSave(r)
    \/ DeleteFetch(r)
    \/ DeleteOne(r)
    \/ EnrollFetch(r)
    \/ EnrollSave(r)
    \/ DropFetch(r)
    \/ DropSave(r)

SpecCourse == Init /\ [][NextCourse]_vars

\* Delete, update, enroll and drop of the first course, by its owner T1 and
\* by the student S1.
DeleteInputs ==
  { i \in Inputs :
      /\ i.op \in {"delete", "update", "enroll", "drop"}
      /\ i.cid = 1
      /\ i.token \in {Cred("T1"), Cred("S1")}
      /\ i.body \in {EmptyBody,
                      [EmptyBody EXCEPT !.hasEnrolled = TRUE, !.enrolledUsers = <<"S1", "S1">>]} }

NextDelete ==
  \E r \in Reqs :
    \/ Arrive(r, DeleteInputs)
    \/ UpdateFetch(r)
    \/ UpdateSave(r)
    \/ DeleteFetch(r)
    \/ DeleteOne(r)
    \/ EnrollFetch(r)
    \/ EnrollSave(r)
    \/ DropFetch(r)
    \/ DropSave(r)

SpecDelete == Init /\ [][NextDelete]_vars

\* Every route, at most MaxSolo requests, and database calls that may fail.
NextFail ==
  \E r \in 1..MaxSolo :
    \/ Arrive(r, Inputs \cup UserInputs)
    \/ RegisterUser(r)
    \/ Login(r)
    \/ ListCourses(r)
    \/ CreateCourse(r)
    \/ GetCourse(r)
    \/ UpdateFetch(r)
    \/ UpdateSave(r)
    \/ DeleteFetch(r)
    \/ DeleteOne(r)
    \/ EnrollFetch(r)
    \/ EnrollSave(r)
    \/ DropFetch(r)
    \/ DropSave(r)
    \/ Fails(r)

SpecFail == Init /\ [][NextFail]_vars

\* What the handler of request r does after the request has arrived: the
\* continuation of the database call it waits for, or its catch block.
Step(r) ==
  \/ RegisterUser(r)
  \/ Login(r)
  \/ ListCourses(r)
  \/ CreateCourse(r)
  \/ GetCourse(r)
  \/ UpdateFetch(r)
  \/ UpdateSave(r)
  \/ DeleteFetch(r)
  \/ DeleteOne(r)
  \/ EnrollFetch(r)
  \/ EnrollSave(r)
  \/ DropFetch(r)
  \/ DropSave(r)
  \/ Fails(r)

\* Requests to every route: without a token, by the teacher T1 or by the
\* student S1; with a body that is empty or complete; with a query that is
\* empty or carries a malformed owner.
LiveInputs ==
  { i \in Inputs :
      /\ i.token \in {NoToken, Cred("T1"), Cred("S1")}
      /\ i.body \in {EmptyBody, [EmptyBody EXCEPT !.courseId = "CS1", !.courseName = "Intro"]}
      /\ i.q \in {NoQuery, [NoQuery EXCEPT !.hasOwner = TRUE,
                                            !.owner = [k \in 1..(ObjectIdLen + 1) |-> "a"]]} }
  \cup
  { i \in UserInputs : i.form.password # "pw2" /\ i.form.role # "admin" }

NextLive ==
  \E r \in 1..MaxSolo :
    \/ Arrive(r, LiveInputs)
    \/ Step(r)

\* Every database call settles, resolved or rejected, and the event loop
\* runs the continuation of every settled call.
SpecLive == Init /\ [][NextLive]_vars /\ \A r \in 1..MaxSolo : WF_vars(Step(r))

\* Logins, and requests that present a token, while time passes.
SessionInputs ==
  { [NoReq EXCEPT !.op = "login", !.form = f] : f \in LoginForms }
  \cup
  { [NoReq EXCEPT !.op = "list", !.token = t] : t \in Tokens }
  \cup
  { [NoReq EXCEPT !.op = o, !.token = t, !.cid = c] :
      o \in {"read", "enroll"}, t \in Tokens, c \in CourseIds }

NextSession ==
  \/ Tick
  \/ \E r \in Reqs :
       \/ Arrive(r, SessionInputs)
       \/ Login(r)
       \/ ListCourses(r)
       \/ GetCourse(r)
       \/ EnrollFetch(r)
       \/ EnrollSave(r)

SpecSession == Init /\ [][NextSession]_vars

(* ------------------------------- claims -------------------------------- *)

OkEnrolled == [status |-> 200, msg |-> "Successfully enrolled in course"]

OkDropped == [status |-> 200, msg |-> "Successfully dropped the course"]

RejectedEnrolled == [status |-> 400, msg |-> "User already enrolled in this course"]

Forbidden == [status |-> 403, msg |-> "Forbidden"]

InRan(r, what) == \E i \in 1..Len(ran[r]) : ran[r][i] = what

\* Request r is an op request that fetched an existing course.
Fetched(r, op) == pc[r] \in {"save", "done"} /\ req[r].op = op /\ doc[r].exists

\* No request outside S is at work on course c, apart from those that were
\* already answered when every request of S arrived.
Alone(S, c) ==
  \A q \in Reqs \ S :
    \/ pc[q] = "idle"
    \/ req[q].cid # c
    \/ pc[q] = "done" /\ \A r \in S : q \in before[r]

C1Case(r1, r2) ==
  /\ r1 # r2
  /\ Fetched(r1, "enroll") /\ ~Contains(doc[r1].enrolledUsers, Caller(r1))
  /\ req[r2].op = "enroll" /\ req[r2].cid = req[r1].cid /\ Caller(r2) = Caller(r1)
  /\ r1 \in before[r2]
  /\ Alone({r1, r2}, req[r1].cid)

\* C1: of two enroll(C,U) requests run one after the other, U not enrolled
\* before and no other request on C in between, the first succeeds, the second
\* is rejected as already enrolled, and enrolledUsers of C holds U exactly once.
C1_EnrollTwice ==
  \A r1, r2 \in Reqs :
    C1Case(r1, r2) =>
      /\ resp[r1] = OkEnrolled
      /\ Count(Caller(r1), courses[req[r1].cid].enrolledUsers) = 1
      /\ pc[r2] \notin {"idle", "handler"} =>
           pc[r2] = "done" /\ resp[r2] = RejectedEnrolled /\ ~wrote[r2]

C1_Witness ==
  \E r1, r2 \in Reqs : C1Case(r1, r2) /\ pc[r2] = "done" /\ resp[r2].status = 400

C2Case(r1, r2) ==
  /\ r1 # r2
  /\ Fetched(r1, "enroll") /\ ~Contains(doc[r1].enrolledUsers, Caller(r1))
  /\ Fetched(r2, "enroll") /\ ~Contains(doc[r2].enrolledUsers, Caller(r2))
  /\ req[r1].cid = req[r2].cid /\ Caller(r1) # Caller(r2)
  /\ pc[r1] = "done" /\ pc[r2] = "done"
  /\ Alone({r1, r2}, req[r1].cid)

\* C2: two enroll requests of distinct users not enrolled in the same course
\* both succeed under every interleaving of their fetch and save steps, and
\* both users are in enrolledUsers afterwards.
C2_ConcurrentEnrollBothKept ==
  \A r1, r2 \in Reqs :
    C2Case(r1, r2) =>
      /\ resp[r1] = OkEnrolled /\ resp[r2] = OkEnrolled
      /\ Contains(courses[req[r1].cid].enrolledUsers, Caller(r1))
      /\ Contains(courses[req[r1].cid].enrolledUsers, Caller(r2))

\* Both requests fetched the same stored document before either saved.
C2_Witness ==
  \E r1, r2 \in Reqs :
    /\ C2Case(r1, r2)
    /\ r1 \notin before[r2] /\ r2 \notin before[r1]
    /\ doc[r1] = doc[r2]
    /\ resp[r1].status = 200 /\ resp[r2].status = 200

\* C3: no course's enrolledUsers holds the same user more than once.
C3_NoDuplicateMember ==
  \A c \in CourseIds : NoDuplicates(courses[c].enrolledUsers)

C4Case(r1, r2) ==
  /\ r1 # r2
  /\ Fetched(r1, "enroll") /\ ~Contains(doc[r1].enrolledUsers, Caller(r1))
  /\ Fetched(r2, "drop") /\ Contains(doc[r2].enrolledUsers, Caller(r2))
  /\ req[r1].cid = req[r2].cid /\ Caller(r1) # Caller(r2)
  /\ pc[r1] = "done" /\ pc[r2] = "done"
  /\ Alone({r1, r2}, req[r1].cid)

\* C4: after a concurrent enroll(C,U1) and drop(C,U2), U1 not enrolled and U2
\* enrolled before, enrolledUsers of C holds U1 and does not hold U2, under
\* every interleaving.
C4_EnrollDropAtomic ==
  \A r1, r2 \in Reqs :
    C4Case(r1, r2) =>
      /\ Contains(courses[req[r1].cid].enrolledUsers, Caller(r1))
      /\ ~Contains(courses[req[r1].cid].enrolledUsers, Caller(r2))

C5Case(r) ==
  /\ (Fetched(r, "update") \/ Fetched(r, "delete"))
  /\ req[r].token.kind = "valid" /\ req[r].token.role = "teacher"
  /\ doc[r].owner # Caller(r)

\* C5: an update or delete of an existing course by a teacher who is not its
\* owner is answered 403 and reaches neither save() nor deleteOne().
C5_NonOwnerTeacherForbidden ==
  \A r \in Reqs :
    C5Case(r) =>
      /\ pc[r] = "done" /\ resp[r].status = 403
      /\ ~wrote[r] /\ ~InRan(r, "save") /\ ~InRan(r, "deleteOne")

C5_Witness ==
  \E r \in Reqs : C5Case(r) /\ resp[r].status = 403 /\ courses[req[r].cid] = doc[r]

ProtectedOps == {"list", "create", "read", "update", "delete", "enroll", "drop"}

\* C6: on every protected operation a request without a valid credential is
\* answered Unauthenticated by the first middleware; no gate after it and no
\* persistence call runs, and nothing is written.
C6_UnauthenticatedFirst ==
  \A r \in Reqs :
    (pc[r] # "idle" /\ req[r].op \in ProtectedOps /\ req[r].token.kind # "valid") =>
      /\ pc[r] = "done" /\ resp[r].status = 401
      /\ ran[r] = <<"authenticateToken">> /\ ~wrote[r]

C7Case(r) ==
  /\ pc[r] # "idle" /\ req[r].op \in {"create", "update", "delete"}
  /\ req[r].token.kind = "valid"

\* C7: create, update and delete pass the role gate iff the credential's role
\* is teacher; a student is answered Forbidden by the gate, before the handler
\* and any persistence call, and nothing is written.
C7_RoleGate ==
  \A r \in Reqs :
    C7Case(r) =>
      IF req[r].token.role = "teacher"
        THEN /\ resp[r] # Forbidden
             /\ pc[r] = "done" => Len(ran[r]) > 2
        ELSE /\ pc[r] = "done" /\ resp[r] = Forbidden
             /\ ran[r] = <<"authenticateToken", "authorizeTeachersOnly">>
             /\ ~wrote[r]

C7_Witness ==
  \E r \in Reqs :
    /\ C7Case(r) /\ req[r].token.role = "student" /\ resp[r] = Forbidden
    /\ req[r].op = "delete" /\ courses[req[r].cid].exists

\* C8: GET /courses/:id without a valid credential is answered
\* Unauthenticated and never fetches or returns the course.
C8_ReadRequiresIdentity ==
  \A r \in Reqs :
    (pc[r] # "idle" /\ req[r].op = "read" /\ req[r].token.kind # "valid") =>
      pc[r] = "done" /\ resp[r].status = 401 /\ ~InRan(r, "findById")

C9Case(r) ==
  /\ Fetched(r, "drop") /\ pc[r] = "done"
  /\ ~Contains(doc[r].enrolledUsers, Caller(r))

\* C9 as stated: a drop by a user who is not enrolled is rejected (NotEnrolled)
\* without a write.
C9_DropNotEnrolledRejected ==
  \A r \in Reqs : C9Case(r) => resp[r].status = 400 /\ ~wrote[r]

\* C9 as amended: a drop by a user who is not enrolled is answered with the
\* success message, sends no write, and leaves the user out of enrolledUsers
\* (no enroll request of that user being at work on the course).
C9_DropNotEnrolledNoOp ==
  \A r \in Reqs :
    C9Case(r) =>
      /\ resp[r] = OkDropped /\ ~wrote[r]
      /\ (\A q \in Reqs \ {r} :
             (pc[q] # "idle" /\ req[q].cid = req[r].cid /\ Caller(q) = Caller(r))
               => pc[q] = "done" /\ q \in before[r])
           => ~Contains(courses[req[r].cid].enrolledUsers, Caller(r))

C9_Witness ==
  \E r \in Reqs :
    /\ C9Case(r) /\ resp[r] = OkDropped
    /\ courses[req[r].cid] = doc[r] /\ doc[r].enrolledUsers # <<>>

\* Exactly 24 hexadecimal characters.
StrictHexId(s) ==
  /\ Len(s) = 24
  /\ \A i \in 1..Len(s) :
       s[i] \in {"0", "1", "2", "3", "4", "5", "6", "7", "8", "9", "a", "b", "c",
                 "d", "e", "f", "A", "B", "C", "D", "E", "F"}

C10Case(r) ==
  /\ pc[r] = "done" /\ req[r].op = "list" /\ req[r].token.kind = "valid"
  /\ req[r].q.hasOwner /\ ~StrictHexId(req[r].q.owner)

\* C10 as stated: an authenticated list request whose owner parameter is
\* present and is not 24 hex characters is answered with a validation error
\* and issues no query, whatever enrolled and search are.
C10_BadOwnerAlwaysRejected ==
  \A r \in Reqs : C10Case(r) => resp[r].status = 400 /\ ~InRan(r, "find")

\* C10 as amended: the same for a non-empty owner parameter when enrolled is
\* not "true", whatever search is.
C10_BadOwnerRejectedUnlessEnrolled ==
  \A r \in Reqs :
    (C10Case(r) /\ req[r].q.owner # <<>> /\ req[r].q.enrolled # "true") =>
      resp[r] = [status |-> 400, msg |-> "Invalid owner ID"] /\ ~InRan(r, "find")

C10_Witness ==
  \E r \in Reqs :
    /\ C10Case(r) /\ req[r].q.owner # <<>> /\ resp[r].status = 400
    /\ req[r].q.enrolled = "false" /\ req[r].q.search = "intro"
    /\ Len(req[r].q.owner) = 25

(* ------------------------- users and sessions -------------------------- *)

Registered(r) ==
  pc[r] = "done" /\ req[r].op = "register" /\ resp[r] = [status |-> 201, msg |-> "User created"]

SameAccount(r1, r2) ==
  /\ req[r1].form.username = req[r2].form.username
  /\ req[r1].form.password = req[r2].form.password

C11Case(r1, r2) ==
  /\ Registered(r1) /\ req[r1].form.role \in {"student", "teacher"}
  /\ pc[r2] = "done" /\ req[r2].op = "login" /\ r1 \in before[r2]
  /\ SameAccount(r1, r2)

\* C11: a successful register with a role in {student, teacher}, followed by
\* a login with the same username and password, is answered 200 with a valid
\* credential whose role, and the role of the response, is the registered role.
C11_RegisterLoginRole ==
  \A r1, r2 \in Reqs :
    C11Case(r1, r2) =>
      /\ resp[r2].status = 200
      /\ out[r2].token.kind = "valid"
      /\ out[r2].token.username = req[r1].form.username
      /\ out[r2].token.role = req[r1].form.role
      /\ out[r2].role = req[r1].form.role

C11_Witness ==
  \E r1, r2 \in Reqs :
    C11Case(r1, r2) /\ req[r1].form.role = "teacher" /\ out[r2].token.role = "teacher"

FreshRegister(r) ==
  /\ pc[r] = "done" /\ req[r].op = "register"
  /\ req[r].form.username = "alice" /\ req[r].form.password # ""
  /\ \A q \in Reqs : q # r /\ req[q].op = "register" => req[q].form.username # "alice"

StoredAs(r, role) ==
  \E u \in FindUser(req[r].form.username) :
    users[u].password = req[r].form.password /\ users[u].role = role

\* C12 as stated: a register with a fresh username and a password whose role
\* is absent or outside {student, teacher} is answered 201 and the user is
\* stored with role student.
C12_RoleDefaultsToStudent ==
  \A r \in Reqs :
    (FreshRegister(r) /\ req[r].form.role \notin {"student", "teacher"}) =>
      (resp[r].status = 201 /\ StoredAs(r, "student"))

\* C12 amended: with a role that is present but outside {student, teacher}
\* the register is answered 201 and the user is stored with role student;
\* with the role absent or empty it is answered 400 and no user is stored.
C12_InvalidRoleStudentAbsentRejected ==
  \A r \in Reqs :
    FreshRegister(r) =>
      /\ req[r].form.role \notin {"student", "teacher", ""} =>
           (resp[r].status = 201 /\ StoredAs(r, "student"))
      /\ req[r].form.role = "" =>
           /\ resp[r] = [status |-> 400, msg |-> "Missing username, password, or role"]
           /\ FindUser(req[r].form.username) = {}
           /\ ~wrote[r]

C12_Witness ==
  \E r \in Reqs :
    FreshRegister(r) /\ req[r].form.role = "admin" /\ StoredAs(r, "student")

Conflict == [status |-> 409, msg |-> "Username already exists"]

\* A register with all three fields whose username an earlier user has.
C13Case(r) ==
  /\ pc[r] = "done" /\ req[r].op = "register"
  /\ req[r].form.password # "" /\ req[r].form.role # ""
  /\ \/ req[r].form.username \in {UsernameOf(u) : u \in UserIds}
     \/ \E q \in Reqs : q # r /\ Registered(q)
                          /\ req[q].form.username = req[r].form.username

\* C13: a register of a username that exists is answered Conflict and adds
\* no user, and no two users share a username, also when two registers of
\* the same username are in progress together.
C13_UsernameUnique ==
  /\ \A r \in Reqs : C13Case(r) => (resp[r] = Conflict /\ ~wrote[r])
  /\ \A u, v \in DOMAIN users : u # v => users[u].username # users[v].username
  /\ Cardinality(DOMAIN users) =
       Cardinality(UserIds) + Cardinality({r \in Reqs : Registered(r)})

C13_Witness ==
  \E r1, r2 \in Reqs :
    /\ Registered(r1) /\ C13Case(r2) /\ resp[r2] = Conflict
    /\ req[r1].form.username = "alice"
    /\ r1 \notin before[r2] /\ r2 \notin before[r1]

Unauthenticated == [status |-> 401, msg |-> "Unauthenticated"]

\* C14: a credential a login returns expires one hour after it was issued,
\* and a protected operation that presents a credential at or after its
\* expiry is answered Unauthenticated with nothing but the identity check run.
C14_ExpiryAfterOneHour ==
  /\ \A r \in Reqs :
       (pc[r] = "done" /\ req[r].op = "login" /\ resp[r].status = 200) =>
         /\ out[r].token.exp = out[r].token.iat + TokenLifetime
         /\ at[r] <= out[r].token.iat /\ out[r].token.iat <= clock
  /\ \A r \in Reqs :
       (pc[r] # "idle" /\ req[r].op \in ProtectedOps
          /\ req[r].token.kind = "valid" /\ at[r] >= req[r].token.exp) =>
         (resp[r] = Unauthenticated /\ ran[r] = <<"authenticateToken">>)

(* ------------------------------- courses ------------------------------- *)

Creates(r) ==
  /\ pc[r] = "handler" /\ pc'[r] = "done"
  /\ req[r].op = "create" /\ resp'[r].status = 201

\* C15: the step in which a teacher's create succeeds stores one new course
\* and returns it; its owner is the caller and its enrolledUsers is exactly
\* the caller, whatever owner or enrolledUsers the body carries.
C15_CreateOwnerAndMembers ==
  [][\A r \in Reqs :
       Creates(r) =>
         /\ req[r].token.role = "teacher"
         /\ doc'[r].exists
         /\ doc'[r].owner = Caller(r)
         /\ doc'[r].enrolledUsers = <<Caller(r)>>
         /\ \E c \in CourseIds :
              /\ ~courses[c].exists /\ courses'[c] = doc'[r]
              /\ \A d \in CourseIds \ {c} : courses'[d] = courses[d]]_vars

C15_Witness ==
  \E r \in Reqs :
    /\ pc[r] = "done" /\ req[r].op = "create" /\ resp[r].status = 201
    /\ req[r].body.owner = "T2" /\ Caller(r) = "T1"
    /\ doc[r].owner = "T1" /\ doc[r].enrolledUsers = <<"T1">>

\* C16: no step changes the owner of a course that exists before and after
\* it, and a new course's owner is its creator, a teacher.
C16_OwnerNeverChanges ==
  [][\A c \in CourseIds :
       /\ (courses[c].exists /\ courses'[c].exists) => courses'[c].owner = courses[c].owner
       /\ (~courses[c].exists /\ courses'[c].exists) =>
            \E r \in Reqs : Creates(r) /\ courses'[c].owner = Caller(r)
                              /\ users[Caller(r)].role = "teacher"]_vars

(* ------------------------------ failures ------------------------------- *)

InternalErrors ==
  { [status |-> 500, msg |-> "Failed to fetch courses"],
    [status |-> 500, msg |-> "Failed to create user"],
    [status |-> 500, msg |-> "Login failed"],
    [status |-> 500, msg |-> "Internal error"] }

\* C17: a request whose database call failed is answered with the generic
\* internal error: status 500 and a fixed text, not the error's own message
\* and not a validation, Forbidden or NotFound answer.
C17_PersistenceFailureInternalError ==
  \A r \in Reqs :
    (pc[r] = "done" /\ InRan(r, "throw")) => resp[r] \in InternalErrors

(* ------------------------------- listing ------------------------------- *)

\* The text occurs in the other, letters compared without case.
OccursIn(part, text) ==
  \E i \in 0..(Len(text) - Len(part)) :
    \A j \in 1..Len(part) : Lower(part[j]) = Lower(text[i + j])

C18_P(r, c) ==
  IF req[r].q.enrolled = "true" THEN Contains(courses[c].enrolledUsers, Caller(r))
  ELSE IF req[r].q.hasOwner /\ IsObjectIdShape(req[r].q.owner)
    THEN IdHex(courses[c].owner) = req[r].q.owner
  ELSE TRUE

C18_S(r, c) ==
  req[r].q.search # "" =>
    \/ OccursIn(Chars(req[r].q.search), Chars(courses[c].courseId))
    \/ OccursIn(Chars(req[r].q.search), Chars(courses[c].courseName))

\* C18: an authenticated list request that is answered with courses returns
\* exactly the stored courses that satisfy P and S: P is membership of the
\* caller when enrolled is "true", else ownership by a valid owner parameter,
\* else true; S is that the search text occurs, without regard to case, in
\* the course code or the course name, or true without a search text.
C18_ListIsFilterAndSearch ==
  \A r \in Reqs :
    (pc[r] = "done" /\ req[r].op = "list" /\ resp[r].status = 200) =>
      out[r].ids = {c \in CourseIds : courses[c].exists /\ C18_P(r, c) /\ C18_S(r, c)}

(* -------------------------- enroll and drop frame ----------------------- *)

\* Every other request is still to arrive or was answered before r arrived.
NoOther(r) ==
  \A q \in Reqs \ {r} : pc[q] = "idle" \/ (pc[q] = "done" /\ q \in before[r])

Succeeds(r) ==
  /\ pc[r] = "save" /\ pc'[r] = "done"
  /\ \/ req[r].op = "enroll" /\ resp'[r] = OkEnrolled
     \/ req[r].op = "drop" /\ resp'[r] = OkDropped

\* C19: the step in which an enroll or drop succeeds, with no other request
\* in progress during it, changes the caller's membership in the course and
\* nothing else: the other users' membership, the course's owner, code, name
\* and existence, every other course and the users stay as they were.
C19_EnrollDropFrame ==
  [][\A r \in Reqs :
       (Succeeds(r) /\ NoOther(r)) =>
         LET c == req[r].cid IN
           /\ users' = users
           /\ \A d \in CourseIds \ {c} : courses'[d] = courses[d]
           /\ courses'[c].exists = courses[c].exists
           /\ courses'[c].owner = courses[c].owner
           /\ courses'[c].courseId = courses[c].courseId
           /\ courses'[c].courseName = courses[c].courseName
           /\ \A u \in DOMAIN users \ {Caller(r)} :
                Count(u, courses'[c].enrolledUsers) = Count(u, courses[c].enrolledUsers)
           /\ Contains(courses'[c].enrolledUsers, Caller(r)) = (req[r].op = "enroll")]_vars

C19_Witness ==
  \E r \in Reqs :
    /\ pc[r] = "done" /\ req[r].op = "drop" /\ resp[r] = OkDropped /\ wrote[r]
    /\ NoOther(r) /\ Caller(r) = "S1"
    /\ courses[req[r].cid].enrolledUsers = <<"T1">>

(* ------------------------------ not found ------------------------------ *)

NotFound == [status |-> 404, msg |-> "Course not found"]

\* The handler of a request addressed to one course looks the course up
\* and the course is not stored.
LooksUpMissing(r) ==
  /\ pc[r] = "handler" /\ pc'[r] # "handler"
  /\ req[r].op \in {"read", "update", "delete", "enroll", "drop"}
  /\ ~courses[req[r].cid].exists

\* C20: an update, delete, enroll, drop or read by id that has passed its
\* gates and addresses a course that is not stored is answered NotFound in
\* that step, and no course and no user changes.
C20_MissingCourseNotFound ==
  [][\A r \in Reqs :
       LooksUpMissing(r) =>
         /\ pc'[r] = "done" /\ resp'[r] = NotFound
         /\ courses' = courses /\ users' = users
         /\ ~wrote'[r]]_vars

C20_Witness ==
  \E r \in Reqs :
    /\ pc[r] = "done" /\ req[r].op = "delete" /\ resp[r] = NotFound
    /\ req[r].token.role = "teacher" /\ InRan(r, "findById")
    /\ ~courses[req[r].cid].exists /\ courses[1].exists

(* ------------------------------ completion ----------------------------- *)

Answered(r) == pc[r] = "done" /\ resp[r].status # 0

\* C21: every request that has arrived is eventually answered, also when a
\* database call of its handler rejects; it has no response before it
\* completes, and once answered its response never changes.
C21_EveryRequestAnswered ==
  /\ \A r \in Reqs : (pc[r] # "idle") ~> Answered(r)
  /\ [](\A r \in Reqs : resp[r].status # 0 => pc[r] = "done")
  /\ [][\A r \in Reqs : Answered(r) => (pc'[r] = "done" /\ resp'[r] = resp[r])]_vars

C21_Witness ==
  \E r \in Reqs :
    /\ Answered(r) /\ req[r].op = "update"
    /\ ran[r] = <<"authenticateToken", "authorizeTeachersOnly", "findById", "throw">>

(* ------------------------ concurrent enrollment ------------------------ *)

\* Two enroll requests of one user for one course, in progress together and
\* both answered, the user not enrolled when the first of them looked.
C22Case(r1, r2) ==
  /\ r1 # r2
  /\ pc[r1] = "done" /\ pc[r2] = "done"
  /\ req[r1].op = "enroll" /\ req[r2].op = "enroll"
  /\ req[r1].cid = req[r2].cid /\ Caller(r1) = Caller(r2)
  /\ r1 \notin before[r2] /\ r2 \notin before[r1]
  /\ doc[r1].exists /\ ~Contains(doc[r1].enrolledUsers, Caller(r1))
  /\ InRan(r2, "findById") /\ doc[r2].exists
  /\ Alone({r1, r2}, req[r1].cid)

\* C22: of two concurrent enroll(C,U) requests of the same user, U not
\* enrolled before, exactly one succeeds, the other is rejected as already
\* enrolled, and enrolledUsers of C holds U exactly once.
C22_ConcurrentSameUserEnroll ==
  \A r1, r2 \in Reqs :
    C22Case(r1, r2) =>
      /\ resp[r1] = OkEnrolled
      /\ resp[r2] = RejectedEnrolled
      /\ Count(Caller(r1), courses[req[r1].cid].enrolledUsers) = 1

(* ------------------------- membership ownership ------------------------ *)

\* The step is the save of request r, an enroll or drop of user u on course c.
OwnChange(r, u, c) ==
  /\ pc[r] = "save" /\ pc'[r] = "done"
  /\ req[r].op \in {"enroll", "drop"}
  /\ req[r].cid = c /\ Caller(r) = u

\* C23: a step changes how often user u is in the enrolledUsers of a course
\* that exists before and after it only if it is the save of u's own enroll
\* or drop on that course; a course that comes to exist holds its creator.
C23_MembershipOnlyByOwnRequest ==
  [][\A c \in CourseIds :
       /\ (courses[c].exists /\ courses'[c].exists) =>
            \A u \in DOMAIN users :
              Count(u, courses'[c].enrolledUsers) # Count(u, courses[c].enrolledUsers) =>
                \E r \in Reqs : OwnChange(r, u, c)
       /\ (~courses[c].exists /\ courses'[c].exists) =>
            \E r \in Reqs : Creates(r) /\ courses'[c].enrolledUsers = <<Caller(r)>>]_vars

(* -------------------------------- delete ------------------------------- *)

Deleted(r) ==
  /\ pc[r] = "done" /\ req[r].op = "delete"
  /\ resp[r] = [status |-> 200, msg |-> "Course deleted"]

\* C24: in every state after the owner's delete request has succeeded the
\* course is absent, whatever update, enroll or drop request that fetched
\* it before the deletion saves afterwards.
C24_DeletedStaysAbsent ==
  \A r \in Reqs :
    Deleted(r) =>
      /\ ~courses[req[r].cid].exists
      /\ doc[r].owner = Caller(r)

\* An enroll fetched the course, the delete succeeded, and the enroll's save
\* came after it and wrote nothing.
C24_Witness ==
  \E r, q \in Reqs :
    /\ Deleted(r) /\ wrote[r]
    /\ pc[q] = "done" /\ req[q].op = "enroll" /\ req[q].cid = req[r].cid
    /\ doc[q].exists /\ InRan(q, "save") /\ ~wrote[q]
    /\ ~courses[req[r].cid].exists

(* -------------------------------- login -------------------------------- *)

InvalidLogin == [status |-> 401, msg |-> "Invalid username or password"]

LoginDone(r) ==
  /\ pc[r] = "done" /\ req[r].op = "login"
  /\ req[r].form.username # "" /\ req[r].form.password # ""

\* The stored users the login's username and password are those of.
Holders(r) ==
  {u \in DOMAIN users : /\ users[u].username = req[r].form.username
                        /\ users[u].password = req[r].form.password}

\* C25: a login is answered with a credential only if its username is that
\* of a stored user and its password is that user's stored password, and the
\* credential carries that user's id, username and role; a login with an
\* unknown username and one with a wrong password get the same answer, 401
\* 'Invalid username or password', and no credential.
C25_LoginOnlyWithPassword ==
  \A r \in Reqs :
    /\ (pc[r] = "done" /\ req[r].op = "login" /\ resp[r].status # 200) =>
         out[r].token = NoToken
    /\ LoginDone(r) =>
         /\ resp[r].status = 200 =>
              \E u \in Holders(r) :
                /\ out[r].token.kind = "valid" /\ out[r].token.id = u
                /\ out[r].token.username = users[u].username
                /\ out[r].token.role = users[u].role
                /\ out[r].role = users[u].role
         /\ Holders(r) = {} => resp[r] = InvalidLogin

C25_Witness ==
  \E r1, r2 \in Reqs :
    /\ LoginDone(r1) /\ resp[r1].status = 200 /\ out[r1].token.id = "T1"
    /\ LoginDone(r2) /\ req[r2].form.username = "t1" /\ req[r2].form.password = "pw2"
    /\ resp[r2] = InvalidLogin /\ out[r2].token = NoToken
====
